---- MODULE Spec2Model ----
(***************************************************************************)
(* Operation history log of the mreg command line client, and the command  *)
(* handlers of src/commands.py and src/mreg_cli/permission.py that feed    *)
(* it.                                                                     *)
(*                                                                         *)
(* The handlers are translated from the source.  The module `history`      *)
(* they import (the log itself: record_get/post/patch/delete, print, undo, *)
(* redo) is not among the source files; it is modelled from section 4.1    *)
(* of spec.md.                                                             *)
(*                                                                         *)
(* JSON scalars are written as strings ("-1", "600", "None") so that the   *)
(* values of one mapping are comparable; URLs are the strings the          *)
(* handlers format.                                                        *)
(***************************************************************************)
EXTENDS Integers, Sequences, FiniteSets, TLC

VARIABLES
    log,      \* history: the ordered, append-only sequence of HistoryEntry
    last,     \* the command that ran last: its name, arguments, outcome and
              \* the HTTP calls it issued, in order
    was_undone,  \* history variable: the sequence numbers of the entries that
                 \* an undo has reversed at least once
    remote,      \* the remote service: the fields its resources hold since a
                 \* PATCH wrote them, as triples <<url, field, value>>
    balance      \* history variable: for each position of the log, the number
                 \* of undos that succeeded on it minus the number of redos
                 \* that succeeded on it

vars == <<log, last, was_undone, balance, remote>>

----------------------------------------------------------------------------
(* Bounds *)

MaxLog == 2        \* no record_* call once the log holds MaxLog entries

----------------------------------------------------------------------------
(* Inputs and configuration *)

\* "http://{}:{}".format(conf["server_ip"], conf["server_port"])
Base == "http://srv:8000"

Names == {"a"}                       \* host names the service resolves
AliasLists == {<<>>, <<"al1">>}      \* aliases_of_host(...)
IPLists == {<<"10.0.0.1">>, <<"10.0.0.1", "10.0.0.2">>}   \* info["ipaddress"]
IPv4Inputs == {"10.0.0.1", "nope"}   \* typed ip arguments
TTLInputs == {"600", "default", "5"} \* typed ttl arguments
RemoteTTLs == {"None"}               \* info["ttl"] as the service reports it
Contacts == {"m@x.org", "bad"}       \* typed contact arguments
HinfoInputs == {"", "99"}            \* typed hinfo arguments
HinfoIds == {"1", "2"}               \* 0 < hinfo <= len(hinfo_list())
Services == {"_sip._tcp.x.org."}     \* service names, long form
PermissionIds == {"7"}               \* permissions[0]['id']

NewNames == {"b"}                    \* typed new host names, long form
CnameIdLists == {<<>>, <<"c1">>}     \* ids of get(".../cnames/?cname=").json()
IPv4Changes == {"10.0.0.2", "10.0.0.0/24", "nope"}   \* a_change new ip/subnet
IPv6Inputs == {"2001:db8::1", "bad6"}      \* typed old ipv6 arguments
IPv6Changes == {"2001:db8::2", "bad6"}     \* typed new ipv6 arguments
Comments == {"rack 4"}               \* typed comments
LocInputs == {"52 N 13 E 0m", "nowhere"}   \* typed LOC arguments
HinfoChanges == {"2", "99"}          \* hinfo_set arguments
SrvLists == {<<>>, <<"s1">>, <<"s1", "s2">>}   \* srvid of get(".../srvs/?service=")
Ranges == {"10.0.0.0/24", "nonet"}   \* permission network ranges

EmptyDict == [k \in {} |-> ""]       \* dict()

\* argument lists typed after `history undo` / `history redo`
NumberTokens == {ToString(i) : i \in 0..(MaxLog + 1)}
ArgLists == {<<t>> : t \in NumberTokens \cup {"x"}}

----------------------------------------------------------------------------
(* HTTP transport: one call, and whether it returned or raised *)

Call(method, url, data, ok) ==
    [method |-> method, url |-> url, data |-> data, ok |-> ok]

Result(cmd, args, result, calls) ==
    [cmd |-> cmd, args |-> args, result |-> result, calls |-> calls]

\* the remote service after the call c: a PATCH that succeeded replaces the
\* fields it names and leaves the other fields of the resource alone
patched(r, c) ==
    IF c.method = "PATCH" /\ c.ok
    THEN {t \in r : ~(t[1] = c.url /\ t[2] \in DOMAIN c.data)}
         \cup {<<c.url, f, c.data[f]>> : f \in DOMAIN c.data}
    ELSE r

\* the remote service after the first k of the calls
RECURSIVE served(_, _, _)
served(r, calls, k) ==
    IF k = 0 THEN r ELSE patched(served(r, calls, k - 1), calls[k])

----------------------------------------------------------------------------
(* The history log (spec.md 3 and 4.1) *)

\* a log that numbers its entries from 0
next_seq_zero_based(l) == Len(l)

\* sequence number of the next entry: 1-based, dense
next_seq(l) == Len(l) + 1

HistoryEntry(l, method, url, name, old_data, new_data, undoable, redoable) ==
    [seq |-> next_seq(l), method |-> method, url |-> url, name |-> name,
     old_data |-> old_data, new_data |-> new_data,
     undoable |-> undoable, redoable |-> redoable, undone |-> FALSE]

record_get(l, url) ==
    Append(l, HistoryEntry(l, "GET", url, "", EmptyDict, EmptyDict, FALSE, FALSE))

\* defaults: undoable=True, redoable=True
record_post(l, url, resource_name, new_data, undoable, redoable) ==
    Append(l, HistoryEntry(l, "POST", url, resource_name, EmptyDict, new_data,
                           undoable, redoable))

\* defaults: undoable=True, redoable=True
record_patch(l, url, new_data, old_data, undoable, redoable) ==
    Append(l, HistoryEntry(l, "PATCH", url, "", old_data, new_data,
                           undoable, redoable))

\* defaults: undoable=True, redoable=False
record_delete(l, url, old_data, undoable, redoable) ==
    Append(l, HistoryEntry(l, "DELETE", url, "", old_data, EmptyDict,
                           undoable, redoable))

\* positions of the entries with sequence number n
lookup(l, n) == {i \in 1..Len(l) : l[i].seq = n}

\* the call that reverses a recorded operation
compensating_call(e, ok) ==
    CASE e.method = "POST"   -> Call("DELETE", e.url, EmptyDict, ok)
      [] e.method = "PATCH"  -> Call("PATCH", e.url, e.old_data, ok)
      [] e.method = "DELETE" -> Call("POST", e.url, e.old_data, ok)

\* the call that repeats a recorded operation
replay_call(e, ok) ==
    CASE e.method = "POST"   -> Call("POST", e.url, e.new_data, ok)
      [] e.method = "PATCH"  -> Call("PATCH", e.url, e.new_data, ok)
      [] e.method = "DELETE" -> Call("DELETE", e.url, EmptyDict, ok)

\* outcome of undo(n) before any call is made: an error kind, or "call"
undo_check(l, n) ==
    IF lookup(l, n) = {} THEN "InvalidArgument"
    ELSE LET e == l[CHOOSE i \in lookup(l, n) : TRUE]
         IN  IF ~e.undoable \/ e.undone THEN "NotUndoable" ELSE "call"

\* a redo that looks at the undone state only
redo_check_ignores_flag(l, n) ==
    IF lookup(l, n) = {} THEN "InvalidArgument"
    ELSE LET e == l[CHOOSE i \in lookup(l, n) : TRUE]
         IN  IF ~e.undone THEN "AlreadyApplied" ELSE "call"

\* outcome of redo(n) before any call is made: an error kind, or "call"
redo_check(l, n) ==
    IF lookup(l, n) = {} THEN "InvalidArgument"
    ELSE LET e == l[CHOOSE i \in lookup(l, n) : TRUE]
         IN  IF ~e.redoable THEN "NotRedoable"
             ELSE IF ~e.undone THEN "AlreadyApplied" ELSE "call"

\* an undo that marks the entry before it knows how the call ended
undo_marks_before_call(cmd, args, n) ==
    IF undo_check(log, n) # "call"
    THEN /\ last' = Result(cmd, args, undo_check(log, n), <<>>)
         /\ UNCHANGED <<log, was_undone, balance, remote>>
    ELSE \E ok \in BOOLEAN :
         LET i == CHOOSE j \in lookup(log, n) : TRUE
             c == compensating_call(log[i], ok)
         IN  /\ log' = [log EXCEPT ![i].undone = TRUE]
             /\ was_undone' = was_undone \cup {log[i].seq}
             /\ balance' = IF ok THEN [balance EXCEPT ![i] = @ + 1]
                           ELSE balance
             /\ remote' = patched(remote, c)
             /\ last' = Result(cmd, args,
                               IF ok THEN "ok" ELSE "UpstreamFailure", <<c>>)

\* history.undo(n), reached from the command cmd typed with args.  The
\* compensating call is issued only after the checks; it returns or raises.
undo(cmd, args, n) ==
    IF undo_check(log, n) # "call"
    THEN /\ last' = Result(cmd, args, undo_check(log, n), <<>>)
         /\ UNCHANGED <<log, was_undone, balance, remote>>
    ELSE \E ok \in BOOLEAN :
         LET i == CHOOSE j \in lookup(log, n) : TRUE
             c == compensating_call(log[i], ok)
         IN  /\ log' = IF ok THEN [log EXCEPT ![i].undone = TRUE] ELSE log
             /\ was_undone' = IF ok THEN was_undone \cup {log[i].seq}
                              ELSE was_undone
             /\ balance' = IF ok THEN [balance EXCEPT ![i] = @ + 1]
                           ELSE balance
             /\ remote' = patched(remote, c)
             /\ last' = Result(cmd, args,
                               IF ok THEN "ok" ELSE "UpstreamFailure", <<c>>)

\* history.redo(n)
redo(cmd, args, n) ==
    IF redo_check(log, n) # "call"
    THEN /\ last' = Result(cmd, args, redo_check(log, n), <<>>)
         /\ UNCHANGED <<log, was_undone, balance, remote>>
    ELSE \E ok \in BOOLEAN :
         LET i == CHOOSE j \in lookup(log, n) : TRUE
             c == replay_call(log[i], ok)
         IN  /\ log' = IF ok THEN [log EXCEPT ![i].undone = FALSE] ELSE log
             /\ UNCHANGED was_undone
             /\ balance' = IF ok THEN [balance EXCEPT ![i] = @ - 1]
                           ELSE balance
             /\ remote' = patched(remote, c)
             /\ last' = Result(cmd, args,
                               IF ok THEN "ok" ELSE "UpstreamFailure", <<c>>)

\* history.print(): writes the log to stdout
print ==
    UNCHANGED <<log, was_undone, balance, remote>>

----------------------------------------------------------------------------
(* Command handlers: class History *)

\* int(args[0]): the decimal tokens parse, anything else raises ValueError
is_int(t) == t \in NumberTokens
int(t) == CHOOSE i \in 0..(MaxLog + 1) : ToString(i) = t

\* a print that consumes the log it prints
opt_print_clears ==
    /\ log' = <<>>
    /\ last' = Result("print", <<>>, "ok", <<>>)
    /\ UNCHANGED <<was_undone, balance, remote>>

opt_print ==
    /\ print
    /\ last' = Result("print", <<>>, "ok", <<>>)

\* an opt_undo that calls history.redo
opt_undo_calls_redo ==
    \E args \in ArgLists :
        IF ~is_int(args[1])
        THEN /\ last' = Result("undo", args, "invalid input", <<>>)
             /\ UNCHANGED <<log, was_undone, balance, remote>>
        ELSE redo("undo", args, int(args[1]))

\* an opt_undo that takes the number as a 0-based position
opt_undo_off_by_one ==
    \E args \in ArgLists :
        IF ~is_int(args[1])
        THEN /\ last' = Result("undo", args, "invalid input", <<>>)
             /\ UNCHANGED <<log, was_undone, balance, remote>>
        ELSE undo("undo", args, int(args[1]) + 1)

opt_undo ==
    \E args \in ArgLists :
        IF ~is_int(args[1])
        THEN /\ last' = Result("undo", args, "invalid input", <<>>)
             /\ UNCHANGED <<log, was_undone, balance, remote>>
        ELSE undo("undo", args, int(args[1]))

\* an opt_redo that calls history.undo
opt_redo_calls_undo ==
    \E args \in ArgLists :
        IF ~is_int(args[1])
        THEN /\ last' = Result("redo", args, "invalid input", <<>>)
             /\ UNCHANGED <<log, was_undone, balance, remote>>
        ELSE undo("redo", args, int(args[1]))

\* an opt_redo that takes the number as a 0-based position
opt_redo_off_by_one ==
    \E args \in ArgLists :
        IF ~is_int(args[1])
        THEN /\ last' = Result("redo", args, "invalid input", <<>>)
             /\ UNCHANGED <<log, was_undone, balance, remote>>
        ELSE redo("redo", args, int(args[1]) + 1)

opt_redo ==
    \E args \in ArgLists :
        IF ~is_int(args[1])
        THEN /\ last' = Result("redo", args, "invalid input", <<>>)
             /\ UNCHANGED <<log, was_undone, balance, remote>>
        ELSE redo("redo", args, int(args[1]))

----------------------------------------------------------------------------
(* Command handlers: class Host, and the permission commands *)

\* cli_warning(...) and the lookup helpers raise: the handler stops where it
\* is, having recorded and called nothing more
rejected(cmd, why) ==
    /\ last' = Result(cmd, <<>>, why, <<>>)
    /\ UNCHANGED <<log, was_undone, balance, remote>>

\* the handler ran to its end, or until the call that raised
finished(cmd, calls) ==
    /\ last' = Result(cmd, <<>>,
                      IF \A i \in 1..Len(calls) : calls[i].ok
                      THEN "ok" ELSE "HTTPError", calls)
    /\ remote' = served(remote, calls, Len(calls))
    /\ UNCHANGED <<was_undone, balance>>

is_valid_email(contact) == contact = "m@x.org"
is_valid_ipv4(ip) == ip \in {"10.0.0.1", "10.0.0.2"}
is_valid_ipv6(ip) == ip \in {"2001:db8::1", "2001:db8::2"}
is_valid_subnet(net) == net = "10.0.0.0/24"
is_valid_network(net) == net = "10.0.0.0/24"
is_valid_loc(loc) == loc = "52 N 13 E 0m"
\* "Valid values are 300 <= TTL <= 68400 or default"
is_valid_ttl(ttl) == ttl \in {"600", "default"}

\* the loop of opt_remove over the first k aliases: record, then delete
RECURSIVE remove_aliases(_, _, _)
remove_aliases(l, aliases, k) ==
    IF k = 0 THEN l
    ELSE record_delete(remove_aliases(l, aliases, k - 1),
                       Base \o "/hosts/" \o aliases[k], EmptyDict, FALSE, FALSE)

\* the deletes of that loop; the one numbered `failed` raised
alias_calls(aliases, k, failed) ==
    [i \in 1..k |-> Call("DELETE", Base \o "/hosts/" \o aliases[i], EmptyDict,
                         i # failed)]

opt_remove ==
    \E name \in Names, found \in BOOLEAN :
        IF ~found THEN rejected("remove", "warning")
        ELSE \E force \in BOOLEAN, ips \in IPLists, aliases \in AliasLists :
            LET n == Len(aliases)
                info == [name |-> name,
                         ipaddress |-> IF Len(ips) > 0 THEN ips[1] ELSE "[]"]
                url == Base \o "/hosts/" \o name
            IN  IF Len(ips) > 1 /\ ~force THEN rejected("remove", "warning")
                ELSE IF n > 0 /\ ~force THEN rejected("remove", "warning")
                ELSE \E failed \in 0..(n + 1) :
                    IF failed \in 1..n
                    THEN \* the delete of alias number `failed` raised
                         /\ Len(log) + failed <= MaxLog
                         /\ log' = remove_aliases(log, aliases, failed)
                         /\ finished("remove",
                                     alias_calls(aliases, failed, failed))
                    ELSE /\ Len(log) + n + 1 <= MaxLog
                         /\ log' = record_delete(remove_aliases(log, aliases, n),
                                                 url, info, TRUE, FALSE)
                         /\ finished("remove",
                                     Append(alias_calls(aliases, n, 0),
                                            Call("DELETE", url, EmptyDict,
                                                 failed = 0)))

opt_add ==
    \E name \in Names, contact \in Contacts, hinfo \in HinfoInputs :
        IF hinfo # "" /\ hinfo \notin HinfoIds THEN rejected("add", "warning")
        ELSE IF ~is_valid_email(contact) THEN rejected("add", "warning")
        ELSE \E exists \in BOOLEAN, force \in BOOLEAN :
            LET old_url == Base \o "/hosts/" \o name
                url == Base \o "/hosts/"
                data == [name |-> name, ipaddress |-> "10.0.0.1",
                         contact |-> contact,
                         hinfo |-> IF hinfo = "" THEN "None" ELSE hinfo,
                         comment |-> "None"]
                l1 == record_delete(log, old_url, EmptyDict, FALSE, FALSE)
            IN  IF exists /\ ~force THEN rejected("add", "warning")
                ELSE IF exists
                THEN \E ok1 \in BOOLEAN :
                    IF ~ok1
                    THEN /\ Len(log) < MaxLog
                         /\ log' = l1
                         /\ finished("add",
                                <<Call("DELETE", old_url, EmptyDict, FALSE)>>)
                    ELSE \E ok2 \in BOOLEAN :
                         /\ Len(log) + 2 <= MaxLog
                         /\ log' = record_post(l1, url, name, data, TRUE, TRUE)
                         /\ finished("add",
                                <<Call("DELETE", old_url, EmptyDict, TRUE),
                                  Call("POST", url, data, ok2)>>)
                ELSE \E ok2 \in BOOLEAN :
                     /\ Len(log) < MaxLog
                     /\ log' = record_post(log, url, name, data, TRUE, TRUE)
                     /\ finished("add", <<Call("POST", url, data, ok2)>>)

opt_a_remove ==
    \E name \in Names, ip \in IPv4Inputs :
        IF ~is_valid_ipv4(ip) THEN rejected("a_remove", "warning")
        ELSE \E found \in BOOLEAN, owned \in BOOLEAN :
            LET old_data == [hostid |-> "id_" \o name, ipaddress |-> ip]
                url == Base \o "/ipaddresses/" \o ip
            IN  IF ~found \/ ~owned THEN rejected("a_remove", "warning")
                ELSE \E ok \in BOOLEAN :
                     /\ Len(log) < MaxLog
                     /\ log' = record_delete(log, url, old_data, TRUE, FALSE)
                     /\ finished("a_remove",
                                 <<Call("DELETE", url, EmptyDict, ok)>>)

opt_ttl_set ==
    \E name \in Names, ttl \in TTLInputs, found \in BOOLEAN :
        IF ~found \/ ~is_valid_ttl(ttl) THEN rejected("ttl_set", "warning")
        ELSE \E info_ttl \in RemoteTTLs, ok \in BOOLEAN :
            LET old_data == [ttl |-> IF info_ttl \in {"None", "0"}
                                     THEN "-1" ELSE info_ttl]
                new_data == [ttl |-> IF ttl # "default" THEN ttl ELSE "-1"]
                url == Base \o "/hosts/" \o name
            IN  /\ Len(log) < MaxLog
                /\ log' = record_patch(log, url, new_data, old_data, TRUE, TRUE)
                /\ finished("ttl_set", <<Call("PATCH", url, new_data, ok)>>)

\* record_post called without undoable=False
opt_srv_add_default_flags ==
    \E sname \in Services, name \in Names, found \in BOOLEAN, force \in BOOLEAN :
        IF ~found /\ ~force THEN rejected("srv_add", "warning")
        ELSE \E ok1 \in BOOLEAN :
            LET get_url == Base \o "/srvs/?service=" \o sname
                url == Base \o "/srvs/"
                data == [service |-> sname, priority |-> "10", weight |-> "5",
                         port |-> "5060", target |-> name]
                l1 == record_get(log, get_url)
            IN  IF ~ok1
                THEN /\ Len(log) < MaxLog
                     /\ log' = l1
                     /\ finished("srv_add",
                                 <<Call("GET", get_url, EmptyDict, FALSE)>>)
                ELSE \E ok2 \in BOOLEAN :
                     /\ Len(log) + 2 <= MaxLog
                     /\ log' = record_post(l1, url, "", data, TRUE, TRUE)
                     /\ finished("srv_add",
                                 <<Call("GET", get_url, EmptyDict, TRUE),
                                   Call("POST", url, data, ok2)>>)

opt_srv_add ==
    \E sname \in Services, name \in Names, found \in BOOLEAN, force \in BOOLEAN :
        IF ~found /\ ~force THEN rejected("srv_add", "warning")
        ELSE \E ok1 \in BOOLEAN :
            LET get_url == Base \o "/srvs/?service=" \o sname
                url == Base \o "/srvs/"
                data == [service |-> sname, priority |-> "10", weight |-> "5",
                         port |-> "5060", target |-> name]
                l1 == record_get(log, get_url)
            IN  IF ~ok1
                THEN /\ Len(log) < MaxLog
                     /\ log' = l1
                     /\ finished("srv_add",
                                 <<Call("GET", get_url, EmptyDict, FALSE)>>)
                ELSE \E ok2 \in BOOLEAN :
                     /\ Len(log) + 2 <= MaxLog
                     /\ log' = record_post(l1, url, "", data, FALSE, TRUE)
                     /\ finished("srv_add",
                                 <<Call("GET", get_url, EmptyDict, TRUE),
                                   Call("POST", url, data, ok2)>>)

network_remove ==
    \E permissions \in 0..2 :
        IF permissions = 0 THEN rejected("network_remove", "warning")
        ELSE IF permissions # 1
        THEN rejected("network_remove", "AssertionError")
        ELSE \E id \in PermissionIds, ok \in BOOLEAN :
            LET path == "/permissions/netgroupregex/" \o id
            IN  /\ Len(log) < MaxLog
                /\ log' = record_delete(log, path, EmptyDict, FALSE, FALSE)
                /\ finished("network_remove",
                            <<Call("DELETE", path, EmptyDict, ok)>>)

----------------------------------------------------------------------------
(* A handler as the sequence of its record_* calls, each followed by the     *)
(* HTTP call it documents                                                     *)

\* handlers that issue several calls may fill the log up to HostLog entries
HostLog == MaxLog + 1

\* a host field or address update is recorded while the log has fewer than
\* FieldLog entries
FieldLog == MaxLog - 1

\* history.record_<rec>(url, ...) followed by <method>(url, **data)
Step(rec, url, name, old_data, new_data, undoable, redoable, method, data) ==
    [rec |-> rec, url |-> url, name |-> name, old_data |-> old_data,
     new_data |-> new_data, undoable |-> undoable, redoable |-> redoable,
     method |-> method, data |-> data]

record_step(l, s) ==
    CASE s.rec = "get"    -> record_get(l, s.url)
      [] s.rec = "post"   -> record_post(l, s.url, s.name, s.new_data,
                                         s.undoable, s.redoable)
      [] s.rec = "patch"  -> record_patch(l, s.url, s.new_data, s.old_data,
                                          s.undoable, s.redoable)
      [] s.rec = "delete" -> record_delete(l, s.url, s.old_data,
                                           s.undoable, s.redoable)

\* the log after the first k steps of the plan
RECURSIVE record_steps(_, _, _)
record_steps(l, plan, k) ==
    IF k = 0 THEN l
    ELSE record_step(record_steps(l, plan, k - 1), plan[k])

\* the calls of the first k steps; the one numbered `failed` raised
step_calls(plan, k, failed) ==
    [i \in 1..k |-> Call(plan[i].method, plan[i].url, plan[i].data, i # failed)]

\* every record_* call of the handler comes before its first HTTP call
perform_records_first(cmd, plan, failed, room) ==
    LET k == IF failed = 0 THEN Len(plan) ELSE failed
    IN  /\ Len(log) + Len(plan) <= room
        /\ log' = record_steps(log, plan, Len(plan))
        /\ finished(cmd, step_calls(plan, k, failed))

\* statements run in order: record, call, record, call, ...; the call
\* numbered `failed` raises and ends the handler (0: none raises)
perform(cmd, plan, failed, room) ==
    LET k == IF failed = 0 THEN Len(plan) ELSE failed
    IN  /\ Len(log) + k <= room
        /\ log' = record_steps(log, plan, k)
        /\ finished(cmd, step_calls(plan, k, failed))

\* the handler stopped on the exception `why` after it had recorded and
\* issued its first k calls
warned(cmd, why, plan, k) ==
    /\ Len(log) + k <= HostLog
    /\ log' = record_steps(log, plan, k)
    /\ last' = Result(cmd, <<>>, why, step_calls(plan, k, 0))
    /\ remote' = served(remote, step_calls(plan, k, 0), k)
    /\ UNCHANGED <<was_undone, balance>>

\* record_patch(url, new_data, old_data) with the default flags, then patch
patch_host(cmd, name, old_data, new_data) ==
    \E failed \in 0..1 :
        perform(cmd,
                <<Step("patch", Base \o "/hosts/" \o name, "", old_data,
                       new_data, TRUE, TRUE, "PATCH", new_data)>>,
                failed, FieldLog)

\* the contact is checked after the PATCH has been recorded and sent
opt_set_contact_checks_late ==
    \E name \in Names, contact \in Contacts, found \in BOOLEAN :
        IF ~found THEN rejected("set_contact", "warning")
        ELSE LET new_data == [contact |-> contact]
                 plan == <<Step("patch", Base \o "/hosts/" \o name, "",
                                [contact |-> "old@x.org"], new_data, TRUE,
                                TRUE, "PATCH", new_data)>>
             IN  IF ~is_valid_email(contact)
                 THEN warned("set_contact", "warning", plan, 1)
                 ELSE \E failed \in 0..1 :
                          perform("set_contact", plan, failed, FieldLog)

\* old_data taken from another field of the host
opt_set_contact_old_comment ==
    \E name \in Names, contact \in Contacts :
        IF ~is_valid_email(contact) THEN rejected("set_contact", "warning")
        ELSE \E found \in BOOLEAN :
            IF ~found THEN rejected("set_contact", "warning")
            ELSE patch_host("set_contact", name,
                            [comment |-> ""], [contact |-> contact])

opt_set_contact ==
    \E name \in Names, contact \in Contacts :
        IF ~is_valid_email(contact) THEN rejected("set_contact", "warning")
        ELSE \E found \in BOOLEAN :
            IF ~found THEN rejected("set_contact", "warning")
            ELSE patch_host("set_contact", name,
                            [contact |-> "old@x.org"], [contact |-> contact])

opt_set_comment ==
    \E name \in Names, comment \in Comments, found \in BOOLEAN :
        IF ~found THEN rejected("set_comment", "warning")
        ELSE \E info_comment \in {"None"} :
            patch_host("set_comment", name,
                       [comment |-> IF info_comment = "None" THEN ""
                                    ELSE info_comment],
                       [comment |-> comment])

opt_ttl_remove ==
    \E name \in Names, found \in BOOLEAN :
        IF ~found THEN rejected("ttl_remove", "warning")
        ELSE \E info_ttl \in {"600"} :
            patch_host("ttl_remove", name, [ttl |-> info_ttl], [ttl |-> "-1"])

opt_loc_set ==
    \E name \in Names, loc \in LocInputs, found \in BOOLEAN :
        IF ~found \/ ~is_valid_loc(loc) THEN rejected("loc_set", "warning")
        ELSE \E info_loc \in {"None"} :
            patch_host("loc_set", name,
                       [loc |-> IF info_loc = "None" THEN "" ELSE info_loc],
                       [loc |-> loc])

opt_loc_remove ==
    \E name \in Names, found \in BOOLEAN :
        IF ~found THEN rejected("loc_remove", "warning")
        ELSE \E info_loc \in {"52 N 13 E 0m"} :
            patch_host("loc_remove", name, [loc |-> info_loc], [loc |-> ""])

opt_hinfo_set ==
    \E name \in Names, hinfo \in HinfoChanges :
        IF hinfo \notin HinfoIds THEN rejected("hinfo_set", "warning")
        ELSE \E found \in BOOLEAN :
            IF ~found THEN rejected("hinfo_set", "warning")
            ELSE \E info_hinfo \in {"None"} :
                patch_host("hinfo_set", name,
                           [hinfo |-> IF info_hinfo = "None" THEN "-1"
                                      ELSE info_hinfo],
                           [hinfo |-> hinfo])

opt_hinfo_remove ==
    \E name \in Names, found \in BOOLEAN :
        IF ~found THEN rejected("hinfo_remove", "warning")
        ELSE \E info_hinfo \in {"1"} :
            patch_host("hinfo_remove", name,
                       [hinfo |-> info_hinfo], [hinfo |-> "-1"])

\* history.record_delete(url, old_data, ...) then delete(url)
delete_step(url, old_data, undoable, redoable) ==
    Step("delete", url, "", old_data, EmptyDict, undoable, redoable,
         "DELETE", EmptyDict)

\* history.record_get(url) then get(url)
get_step(url) ==
    Step("get", url, "", EmptyDict, EmptyDict, FALSE, FALSE, "GET", EmptyDict)

\* the forced removal of the host that already has the new name
rename_deletes(exists, aliases, new_name) ==
    IF ~exists THEN <<>>
    ELSE [i \in 1..Len(aliases) |->
              delete_step(Base \o "/hosts/" \o aliases[i], EmptyDict,
                          FALSE, FALSE)]
         \o <<delete_step(Base \o "/hosts/" \o new_name, EmptyDict,
                          FALSE, FALSE)>>

\* flags of the record_patch call that documents the rename
rename_patch(old_name, new_name, undoable, redoable) ==
    Step("patch", Base \o "/hosts/" \o old_name, "", [name |-> old_name],
         [name |-> new_name], undoable, redoable, "PATCH", [name |-> new_name])

rename_cnames(cnames, old_name, new_name) ==
    [i \in 1..Len(cnames) |->
        Step("patch", Base \o "/cnames/" \o cnames[i], "", [cname |-> old_name],
             [cname |-> new_name], TRUE, TRUE, "PATCH", [cname |-> new_name])]

rename_plan(exists, aliases, cnames, old_name, new_name) ==
    rename_deletes(exists, aliases, new_name)
    \o <<rename_patch(old_name, new_name, FALSE, FALSE),
         get_step(Base \o "/cnames/?cname=" \o old_name)>>
    \o rename_cnames(cnames, old_name, new_name)

opt_rename ==
    \E old_name \in Names, new_name \in NewNames, found \in BOOLEAN :
        IF ~found THEN rejected("rename", "warning")
        ELSE \E exists \in BOOLEAN, force \in BOOLEAN :
            IF exists /\ ~force THEN rejected("rename", "warning")
            ELSE \E aliases \in AliasLists, cnames \in CnameIdLists :
                LET plan == rename_plan(exists, aliases, cnames,
                                        old_name, new_name)
                IN  \E failed \in 0..Len(plan) :
                        perform("rename", plan, failed, HostLog)

\* flags of the record_patch call of a_change and aaaa_change
change_ip(cmd, old_ip, ip, undoable, redoable) ==
    \E failed \in 0..1 :
        perform(cmd,
                <<Step("patch", Base \o "/ipaddresses/" \o old_ip, "",
                       [ipaddress |-> old_ip], [ipaddress |-> ip],
                       undoable, redoable, "PATCH", [ipaddress |-> ip])>>,
                failed, FieldLog)

\* record_patch called with its default flags
opt_a_change_default_flags ==
    \E name \in Names, old_ip \in IPv4Inputs, ip_or_subnet \in IPv4Changes :
        IF ~is_valid_ipv4(old_ip) THEN rejected("a_change", "warning")
        ELSE IF ~is_valid_ipv4(ip_or_subnet) /\ ~is_valid_subnet(ip_or_subnet)
        THEN rejected("a_change", "warning")
        ELSE \E found \in BOOLEAN, owned \in BOOLEAN :
            IF ~found \/ ~owned THEN rejected("a_change", "warning")
            ELSE IF ~is_valid_ipv4(ip_or_subnet)
            THEN rejected("a_change", "warning")
            ELSE change_ip("a_change", old_ip, ip_or_subnet, TRUE, TRUE)

opt_a_change ==
    \E name \in Names, old_ip \in IPv4Inputs, ip_or_subnet \in IPv4Changes :
        IF ~is_valid_ipv4(old_ip) THEN rejected("a_change", "warning")
        ELSE IF ~is_valid_ipv4(ip_or_subnet) /\ ~is_valid_subnet(ip_or_subnet)
        THEN rejected("a_change", "warning")
        ELSE \E found \in BOOLEAN, owned \in BOOLEAN :
            IF ~found \/ ~owned THEN rejected("a_change", "warning")
            ELSE IF ~is_valid_ipv4(ip_or_subnet)
            THEN rejected("a_change", "warning")
            ELSE change_ip("a_change", old_ip, ip_or_subnet, FALSE, FALSE)

opt_aaaa_change ==
    \E name \in Names, old_ip \in IPv6Inputs, new_ip \in IPv6Changes,
       found \in BOOLEAN :
        IF ~found THEN rejected("aaaa_change", "warning")
        ELSE IF ~is_valid_ipv6(old_ip) \/ ~is_valid_ipv6(new_ip)
        THEN rejected("aaaa_change", "warning")
        ELSE \E owned \in BOOLEAN :
            IF ~owned THEN rejected("aaaa_change", "warning")
            ELSE change_ip("aaaa_change", old_ip, new_ip, FALSE, FALSE)

opt_cname_add ==
    \E name \in Names, alias \in {"al1"}, found \in BOOLEAN :
        IF ~found THEN rejected("cname_add", "warning")
        ELSE \E alias_info \in BOOLEAN :
            LET data == [name |-> alias, contact |-> "old@x.org"]
                host == Step("post", Base \o "/hosts/", alias, EmptyDict,
                             data, TRUE, TRUE, "POST", data)
                cname == Step("post", Base \o "/cnames/", "", EmptyDict,
                              EmptyDict, FALSE, FALSE, "POST",
                              [hostid |-> "11", cname |-> name])
            IN  IF alias_info
                THEN \E has_records \in BOOLEAN :
                    IF has_records THEN rejected("cname_add", "warning")
                    ELSE \E failed \in 0..1 :
                        perform("cname_add", <<cname>>, failed, MaxLog)
                ELSE \/ \E failed \in 0..2 :
                            perform("cname_add", <<host, cname>>, failed, MaxLog)
                     \* host_info_by_name(alias) after the POST finds nothing
                     \/ warned("cname_add", "HostNotFoundWarning", <<host, cname>>, 1)

opt_srv_remove ==
    \E sname \in Services, srvs \in SrvLists, force \in BOOLEAN :
        LET plan == <<get_step(Base \o "/srvs/?service=" \o sname)>> \o
                    [i \in 1..Len(srvs) |->
                        delete_step(Base \o "/srvs/" \o srvs[i],
                                    [srvid |-> srvs[i], service |-> sname],
                                    TRUE, FALSE)]
        IN  \/ perform("srv_remove", plan, 1, HostLog)
            \/ IF Len(srvs) = 0 \/ (Len(srvs) > 1 /\ ~force)
               THEN warned("srv_remove", "warning", plan, 1)
               ELSE \E failed \in {0} \cup 2..Len(plan) :
                        perform("srv_remove", plan, failed, HostLog)

\* history.record_get(path, "", data) is followed by post(path, **data).
\* history's record_get is declared record_get(url): the call either raises
\* TypeError before anything is recorded or sent, or records a GET of path.
network_add ==
    \E range \in Ranges :
        IF ~is_valid_network(range) THEN rejected("network_add", "warning")
        ELSE \E accepts \in BOOLEAN :
            IF ~accepts THEN rejected("network_add", "TypeError")
            ELSE \E failed \in 0..1 :
                LET data == [range |-> range, group |-> "grp", regex |-> ".*"]
                    path == "/permissions/netgroupregex/"
                IN  perform("network_add",
                            <<Step("get", path, "", EmptyDict, data, FALSE,
                                   FALSE, "POST", data)>>,
                            failed, MaxLog)

----------------------------------------------------------------------------

Init ==
    /\ log = <<>>
    /\ last = Result("start", <<>>, "ok", <<>>)
    /\ was_undone = {}
    /\ balance = [i \in 1..HostLog |-> 0]
    /\ remote = {}

Next ==
    \/ opt_print
    \/ opt_undo
    \/ opt_redo
    \/ opt_add
    \/ opt_remove
    \/ opt_a_remove
    \/ opt_ttl_set
    \/ opt_srv_add
    \/ network_remove

Spec == Init /\ [][Next]_vars

\* the commands that issue several calls or change a resource's key, with
\* undo and redo
NextRename ==
    \/ opt_undo
    \/ opt_redo
    \/ opt_rename
    \/ opt_a_change
    \/ opt_aaaa_change
    \/ opt_srv_remove
    \/ opt_remove

SpecRename == Init /\ [][NextRename]_vars

\* handlers that record the creation or the removal of a resource
NextRecord ==
    \/ network_add
    \/ network_remove
    \/ opt_cname_add
    \/ opt_add
    \/ opt_srv_remove

SpecRecord == Init /\ [][NextRecord]_vars

\* the host field updates, with undo and redo
NextField ==
    \/ opt_undo
    \/ opt_redo
    \/ opt_set_contact
    \/ opt_set_comment
    \/ opt_ttl_set
    \/ opt_ttl_remove
    \/ opt_loc_set
    \/ opt_loc_remove
    \/ opt_hinfo_set
    \/ opt_hinfo_remove

SpecField == Init /\ [][NextField]_vars

\* the commands that check their input before they record
NextReject ==
    \/ opt_remove
    \/ opt_set_contact
    \/ opt_a_change
    \/ opt_ttl_set
    \/ opt_loc_set
    \/ opt_hinfo_set
    \/ opt_srv_remove
    \/ network_add

SpecReject == Init /\ [][NextReject]_vars

\* every handler that calls record_patch
NextPatch ==
    \/ opt_set_contact
    \/ opt_set_comment
    \/ opt_rename
    \/ opt_a_change
    \/ opt_aaaa_change
    \/ opt_ttl_set
    \/ opt_ttl_remove
    \/ opt_loc_set
    \/ opt_loc_remove
    \/ opt_hinfo_set
    \/ opt_hinfo_remove

SpecPatch == Init /\ [][NextPatch]_vars

----------------------------------------------------------------------------
(* Properties *)

\* position in l of the entry that the typed number of `history undo <n>` /
\* `history redo <n>` names; 0 when the log has no such entry
target(l, args) ==
    IF is_int(args[1]) /\ lookup(l, int(args[1])) # {}
    THEN CHOOSE i \in lookup(l, int(args[1])) : TRUE
    ELSE 0

\* the step is the command `history undo` / `history redo` with a number
IsUndo == last'.cmd = "undo" /\ is_int(last'.args[1])
IsRedo == last'.cmd = "redo" /\ is_int(last'.args[1])

\* a handler has just recorded entry number Len(log)
JustRecorded ==
    /\ last.cmd \notin {"start", "print", "undo", "redo"}
    /\ last.calls # <<>>

\* C1: the k-th record_* call gets sequence number k: the sequence numbers
\* of the log are exactly 1..N, whatever undo and redo calls (accepted or
\* rejected) came in between.
C1_SequenceNumbers ==
    \A k \in 1..Len(log) : log[k].seq = k

\* a record_* call made after an undo had reversed entry 1
C1_Witness ==
    /\ Len(log) = 2
    /\ log[1].undone
    /\ JustRecorded
    /\ log[2].seq = 2

\* C2: on an entry recorded by record_post with the default flags, undo(n)
\* followed by redo(n), both calls succeeding, leaves undone=false, and the
\* two commands issued exactly two calls: first a DELETE, then a POST.
C2_PostUndoRedo ==
    [][ (/\ last.cmd = "undo" /\ last.result = "ok"
         /\ IsRedo /\ last'.args = last.args
         /\ target(log, last.args) # 0
         /\ LET e == log[target(log, last.args)]
            IN  e.method = "POST" /\ e.undoable /\ e.redoable)
        => /\ last'.result \in {"ok", "UpstreamFailure"}
           /\ last'.result = "ok" =>
                LET calls == last.calls \o last'.calls
                IN  /\ Len(calls) = 2
                    /\ calls[1].method = "DELETE" /\ calls[1].ok
                    /\ calls[2].method = "POST" /\ calls[2].ok
                    /\ ~log'[target(log, last.args)].undone
                    /\ log[target(log, last.args)].undone ]_vars

\* a redo has succeeded on a POST entry with the default flags
C2_Witness ==
    /\ last.cmd = "redo" /\ last.result = "ok"
    /\ target(log, last.args) # 0
    /\ LET e == log[target(log, last.args)]
       IN  e.method = "POST" /\ e.undoable /\ e.redoable /\ ~e.undone
    /\ last.calls[1].method = "POST"

\* C3: undo(n) on an entry whose undoable flag is false fails with
\* NotUndoable, issues no HTTP call and leaves the entry with undone=false.
C3_UndoNotUndoable ==
    [][ (/\ IsUndo
         /\ target(log, last'.args) # 0
         /\ ~log[target(log, last'.args)].undoable)
        => /\ last'.result = "NotUndoable"
           /\ last'.calls = <<>>
           /\ log' = log
           /\ ~log'[target(log, last'.args)].undone ]_vars

\* an undo was tried on an entry that is not undoable
C3_Witness ==
    /\ last.cmd = "undo"
    /\ target(log, last.args) # 0
    /\ ~log[target(log, last.args)].undoable
    /\ last.result = "NotUndoable"

C5_UndoTwice ==
    [][ (/\ IsUndo
         /\ target(log, last'.args) # 0
         /\ log[target(log, last'.args)].undone)
        => /\ last'.result = "NotUndoable"
           /\ last'.calls = <<>>
           /\ log' = log
           /\ log'[target(log, last'.args)].undone ]_vars

\* a second undo was tried on an entry that is undone
C5_Witness ==
    /\ last.cmd = "undo"
    /\ target(log, last.args) # 0
    /\ log[target(log, last.args)].undone
    /\ last.result = "NotUndoable"

\* C6: on an entry recorded by record_delete with redoable=false, redo(n)
\* fails with NotRedoable and issues no call, whether the entry is undone or
\* not.
C6_RedoDelete ==
    [][ (/\ IsRedo
         /\ target(log, last'.args) # 0
         /\ log[target(log, last'.args)].method = "DELETE"
         /\ ~log[target(log, last'.args)].redoable)
        => /\ last'.result = "NotRedoable"
           /\ last'.calls = <<>>
           /\ log' = log ]_vars

\* a redo was tried on a DELETE entry that a successful undo had reversed
C6_Witness ==
    /\ last.cmd = "redo"
    /\ target(log, last.args) # 0
    /\ LET e == log[target(log, last.args)]
       IN  e.method = "DELETE" /\ ~e.redoable /\ e.undone
    /\ last.result = "NotRedoable"

\* C7: undo(n) and redo(n) with a number that no entry has (any number on
\* the empty log, 0, N+1) fail with InvalidArgument, issue no call and leave
\* the log as it was.
C7_NoSuchEntry ==
    [][ ((IsUndo \/ IsRedo) /\ target(log, last'.args) = 0)
        => /\ last'.result = "InvalidArgument"
           /\ last'.calls = <<>>
           /\ log' = log ]_vars

\* undo was given N+1 on a log of N >= 1 entries
C7_Witness ==
    /\ last.cmd = "undo"
    /\ Len(log) >= 1
    /\ last.args = <<ToString(Len(log) + 1)>>
    /\ last.result = "InvalidArgument"

\* C8: when the call of undo(n) or redo(n) fails, the failure is reported,
\* no entry changes (undone keeps its value), and the same undo/redo typed
\* again is accepted (it issues its call again).
C8_UpstreamFailure ==
    [][ /\ ((IsUndo \/ IsRedo) /\ last'.calls # <<>> /\ ~last'.calls[1].ok)
           => /\ last'.result = "UpstreamFailure"
              /\ log' = log
        /\ last'.result = "UpstreamFailure"
           => /\ last'.cmd \in {"undo", "redo"}
              /\ log' = log
        /\ (/\ last.result = "UpstreamFailure"
            /\ last'.cmd = last.cmd /\ last'.args = last.args)
           => /\ last'.result \in {"ok", "UpstreamFailure"}
              /\ Len(last'.calls) = 1
              /\ last'.calls[1].method = last.calls[1].method
              /\ last'.calls[1].url = last.calls[1].url ]_vars

\* a redo failed upstream and the entry is still undone
C8_Witness ==
    /\ last.cmd = "redo"
    /\ last.result = "UpstreamFailure"
    /\ log[target(log, last.args)].undone

\* C9: a successful undo(n) issues exactly one call, to the URL of the
\* entry: DELETE for a recorded POST, PATCH with old_data for a recorded
\* PATCH, POST with old_data for a recorded DELETE; undone becomes true in
\* that step, and in no undo step whose call did not succeed.
C9_UndoCall ==
    [][ /\ (IsUndo /\ last'.result = "ok")
           => /\ target(log, last'.args) # 0
              /\ Len(last'.calls) = 1
              /\ LET e == log[target(log, last'.args)]
                     c == last'.calls[1]
                 IN  /\ c.ok
                     /\ c.url = e.url
                     /\ e.method \in {"POST", "PATCH", "DELETE"}
                     /\ e.method = "POST" => c.method = "DELETE"
                     /\ e.method = "PATCH" =>
                            c.method = "PATCH" /\ c.data = e.old_data
                     /\ e.method = "DELETE" =>
                            c.method = "POST" /\ c.data = e.old_data
                     /\ ~e.undone
                     /\ log' = [log EXCEPT
                                  ![target(log, last'.args)].undone = TRUE]
        /\ (IsUndo /\ last'.result # "ok") => log' = log ]_vars

\* an undo of a PATCH entry has sent the old data
C9_Witness ==
    /\ last.cmd = "undo" /\ last.result = "ok"
    /\ LET e == log[target(log, last.args)]
       IN  /\ e.method = "PATCH" /\ e.undone
           /\ e.old_data # e.new_data
           /\ last.calls[1].data = e.old_data

\* C10: a successful redo(n) issues exactly one call, to the URL of the
\* entry, that repeats the recorded call: POST with new_data, PATCH with
\* new_data, DELETE; and it sets undone=false.
C10_RedoCall ==
    [][ (IsRedo /\ last'.result = "ok")
        => /\ target(log, last'.args) # 0
           /\ Len(last'.calls) = 1
           /\ LET e == log[target(log, last'.args)]
                  c == last'.calls[1]
              IN  /\ c.ok
                  /\ c.url = e.url
                  /\ c.method = e.method
                  /\ e.method \in {"POST", "PATCH", "DELETE"}
                  /\ e.method \in {"POST", "PATCH"} => c.data = e.new_data
                  /\ e.undone /\ e.redoable
                  /\ log' = [log EXCEPT
                               ![target(log, last'.args)].undone = FALSE] ]_vars

\* a redo of a PATCH entry has sent the new data
C10_Witness ==
    /\ last.cmd = "redo" /\ last.result = "ok"
    /\ LET e == log[target(log, last.args)]
       IN  /\ e.method = "PATCH" /\ ~e.undone
           /\ e.old_data # e.new_data
           /\ last.calls[1].data = e.new_data

\* C11: every entry is recorded with undone=false; undone goes from false to
\* true only in a successful undo of that entry and from true to false only
\* in a successful redo of that entry; no other step changes it.
C11_UndoneToggles ==
    [][ /\ Len(log') >= Len(log)
        /\ \A i \in (Len(log) + 1)..Len(log') : ~log'[i].undone
        /\ \A i \in 1..Len(log) :
             log'[i].undone # log[i].undone =>
               IF log'[i].undone
               THEN /\ IsUndo /\ last'.result = "ok"
                    /\ target(log, last'.args) = i
               ELSE /\ IsRedo /\ last'.result = "ok"
                    /\ target(log, last'.args) = i ]_vars

\* entry 2 was undone and redone while entry 1 stays undone
C11_Witness ==
    /\ Len(log) = 2
    /\ log[1].undone
    /\ ~log[2].undone /\ 2 \in was_undone
    /\ last.cmd = "redo" /\ last.result = "ok"

\* C12: an entry with undoable=false is never undone, and an entry with
\* redoable=false that is undone stays undone in every later state.
C12_StaticFlags ==
    [][ /\ \A i \in 1..Len(log') : ~log'[i].undoable => ~log'[i].undone
        /\ \A i \in 1..Len(log) :
             (~log[i].redoable /\ log[i].undone) =>
                (i <= Len(log') /\ log'[i].undone) ]_vars

\* an undo was refused on entry 1 (not undoable) while entry 2 (not
\* redoable) is undone
C12_Witness ==
    /\ Len(log) = 2
    /\ ~log[1].undoable /\ ~log[1].undone
    /\ ~log[2].redoable /\ log[2].undone
    /\ last.cmd = "undo" /\ last.args = <<"1">>
    /\ last.result = "NotUndoable"

\* C13: every entry made by record_get has undoable=false and
\* redoable=false; undo and redo on it are rejected without an HTTP call.
C13_GetEntries ==
    [][ /\ \A i \in 1..Len(log') :
             log'[i].method = "GET" =>
                ~log'[i].undoable /\ ~log'[i].redoable
        /\ (/\ IsUndo \/ IsRedo
            /\ target(log, last'.args) # 0
            /\ log[target(log, last'.args)].method = "GET")
           => /\ last'.result =
                   (IF last'.cmd = "undo" THEN "NotUndoable" ELSE "NotRedoable")
              /\ last'.calls = <<>>
              /\ log' = log ]_vars

\* a redo was tried on a GET entry
C13_Witness ==
    /\ last.cmd = "redo"
    /\ target(log, last.args) # 0
    /\ log[target(log, last.args)].method = "GET"
    /\ last.result = "NotRedoable"

\* the fields of an entry that are fixed when it is recorded
fixed_fields(e) ==
    <<e.seq, e.method, e.url, e.name, e.old_data, e.new_data,
      e.undoable, e.redoable>>

\* C14: the log is append-only and only record_* calls make it longer; undo
\* and redo (accepted, rejected or failed) keep its length and order and
\* change nothing but the undone flag of the entry they name; the other
\* fields of an entry stay as recorded.
C14_Frame ==
    [][ /\ Len(log') >= Len(log)
        /\ \A i \in 1..Len(log) : fixed_fields(log'[i]) = fixed_fields(log[i])
        /\ Len(log') > Len(log) =>
              last'.cmd \notin {"undo", "redo", "print"}
        /\ (last'.cmd \in {"undo", "redo"}) =>
              /\ Len(log') = Len(log)
              /\ \A i \in 1..Len(log) :
                   (~is_int(last'.args[1]) \/ i # target(log, last'.args))
                      => log'[i] = log[i] ]_vars

\* an undo has reversed entry 1 of two and left entry 2 alone
C14_Witness ==
    /\ Len(log) = 2
    /\ last.cmd = "undo" /\ last.result = "ok" /\ last.args = <<"1">>
    /\ log[1].undone
    /\ ~log[2].undone /\ 2 \notin was_undone

\* C15: print leaves the log as it is (entries, order, flags) and issues no
\* HTTP call, on the empty log too.
C15_PrintFrame ==
    [][ last'.cmd = "print" => (log' = log /\ last'.calls = <<>>) ]_vars

\* print ran on a log that holds an undone entry
C15_Witness ==
    /\ last.cmd = "print"
    /\ Len(log) >= 1
    /\ \E i \in 1..Len(log) : log[i].undone

----------------------------------------------------------------------------
\* C20: an undoable, not-undone entry documents a live effect: when the HTTP
\* call a handler issued for a recorded operation failed, the log holds no
\* entry for that operation on which undo would succeed.  The handlers record
\* before they call, so the entry of the failed call stays in the log.
failed_entries ==
    {Len(log) - Len(last.calls) + i : i \in
        {j \in 1..Len(last.calls) : ~last.calls[j].ok}}

C20_LiveEffect ==
    JustRecorded =>
        \A i \in failed_entries :
            i \in 1..Len(log) => ~(log[i].undoable /\ ~log[i].undone)

----------------------------------------------------------------------------
Mutating == {"POST", "PATCH", "DELETE"}

\* the entry appended for the j-th call of the command that has just run
entry_of_call(j) == Len(log) - Len(last.calls) + j

\* C16: every mutating HTTP call (POST, PATCH, DELETE) a handler issues has
\* its own log entry, with the method and the URL of the call; a POST is
\* recorded as a POST, not as a GET.
C16_CallsRecorded ==
    JustRecorded =>
        \A j \in 1..Len(last.calls) :
            last.calls[j].method \in Mutating =>
                /\ entry_of_call(j) \in 1..Len(log)
                /\ log[entry_of_call(j)].method = last.calls[j].method
                /\ log[entry_of_call(j)].url = last.calls[j].url

\* C17: the log is in the order of the calls: a handler step appends one
\* entry per call it issued, in the order of the calls, each call before the
\* next record_*; later steps, undo and redo included, keep the entries where
\* they are, and undo and redo append nothing for the calls they issue.
C17_LogOrder ==
    [][ /\ Len(log') >= Len(log)
        /\ \A i \in 1..Len(log) :
               /\ log'[i].seq = log[i].seq
               /\ log'[i].method = log[i].method
               /\ log'[i].url = log[i].url
        /\ last'.cmd \in {"undo", "redo"} => Len(log') = Len(log)
        /\ last'.cmd \notin {"undo", "redo"} =>
               /\ Len(log') = Len(log) + Len(last'.calls)
               /\ \A j \in 1..Len(last'.calls) :
                      /\ log'[Len(log) + j].url = last'.calls[j].url
                      /\ log'[Len(log) + j].seq = Len(log) + j
                      /\ j < Len(last'.calls) => last'.calls[j].ok
      ]_vars

\* a rename has recorded its PATCH, its GET and a cname PATCH in the order of
\* its calls, and the cname PATCH has then been undone
C17_Witness ==
    /\ last.cmd = "undo"
    /\ last.result = "ok"
    /\ Len(log) = 3
    /\ log[1].method = "PATCH" /\ log[1].url = Base \o "/hosts/a"
    /\ log[2].method = "GET"
    /\ log[3].method = "PATCH" /\ log[3].url = Base \o "/cnames/c1"
    /\ log[3].undone

\* the PATCH replaced the name or the address its URL is built from
KeyChanging(e) ==
    /\ e.method = "PATCH"
    /\ \E k \in DOMAIN e.old_data \cap {"name", "ipaddress"} :
           /\ e.url \in {Base \o "/hosts/" \o e.old_data[k],
                         Base \o "/ipaddresses/" \o e.old_data[k]}
           /\ e.new_data[k] # e.old_data[k]

\* C18: an entry of a PATCH that changes the key its URL is built from
\* (rename, a_change, aaaa_change) has undoable = false and redoable = false,
\* and no undo or redo issues a PATCH against the URL of such an entry.
C18_KeyChanging ==
    [][ /\ \A i \in 1..Len(log') :
               KeyChanging(log'[i]) => ~log'[i].undoable /\ ~log'[i].redoable
        /\ last'.cmd \in {"undo", "redo"} =>
               \A j \in 1..Len(last'.calls) :
                   last'.calls[j].method = "PATCH" =>
                       \A i \in 1..Len(log) :
                           KeyChanging(log[i]) =>
                               log[i].url # last'.calls[j].url
      ]_vars

\* undo of the entry of an a_change was rejected and sent nothing
C18_Witness ==
    /\ last.cmd = "undo"
    /\ is_int(last.args[1])
    /\ target(log, last.args) \in 1..Len(log)
    /\ KeyChanging(log[target(log, last.args)])
    /\ log[target(log, last.args)].url = Base \o "/ipaddresses/10.0.0.1"
    /\ last.result = "NotUndoable"
    /\ last.calls = <<>>

\* C19: every PATCH entry has old_data and new_data with the same key set,
\* whichever handler recorded it.
C19_PatchKeys ==
    \A i \in 1..Len(log) :
        log[i].method = "PATCH" =>
            DOMAIN log[i].old_data = DOMAIN log[i].new_data

\* set_contact and ttl_set have each recorded their PATCH
C19_Witness ==
    /\ Len(log) = 2
    /\ log[1].method = "PATCH" /\ log[2].method = "PATCH"
    /\ DOMAIN log[1].old_data = {"contact"}
    /\ DOMAIN log[2].new_data = {"ttl"}
    /\ last.cmd = "ttl_set"

----------------------------------------------------------------------------
\* C21: an entry recorded with undoable = false never causes an HTTP call
\* from undo or redo, also when its redoable flag is true, as for the POST of
\* srv_add (undoable = false, redoable = true): it is never undone, undo on it
\* is rejected with NotUndoable, redo on it is rejected with NotRedoable or
\* AlreadyApplied, and neither sends a call or changes the log.
C21_NotUndoableNoCall ==
    [][ /\ \A i \in 1..Len(log') :
               /\ ~log'[i].undoable => ~log'[i].undone
               /\ (log'[i].method = "POST" /\ log'[i].url = Base \o "/srvs/")
                      => ~log'[i].undoable /\ log'[i].redoable
        /\ (IsUndo \/ IsRedo) /\ target(log, last'.args) # 0
           /\ ~log[target(log, last'.args)].undoable =>
               /\ last'.calls = <<>>
               /\ log' = log
               /\ last'.result \in (IF last'.cmd = "undo" THEN {"NotUndoable"}
                                    ELSE {"NotRedoable", "AlreadyApplied"})
      ]_vars

\* redo of the POST entry of srv_add was rejected and sent nothing
C21_Witness ==
    /\ last.cmd = "redo"
    /\ is_int(last.args[1])
    /\ target(log, last.args) # 0
    /\ log[target(log, last.args)].method = "POST"
    /\ log[target(log, last.args)].url = Base \o "/srvs/"
    /\ ~log[target(log, last.args)].undoable
    /\ log[target(log, last.args)].redoable
    /\ last.result = "AlreadyApplied"
    /\ last.calls = <<>>

----------------------------------------------------------------------------
\* C22: on each entry the successful undos and the successful redos strictly
\* alternate, starting with an undo: the number of successful undos minus the
\* number of successful redos is 1 when the entry is undone and 0 when it is
\* not, and a redo on an entry that is not undone (never undone, or redone
\* since) is rejected without a call.
C22_Alternation ==
    [][ /\ \A i \in 1..Len(log') :
               balance'[i] = IF log'[i].undone THEN 1 ELSE 0
        /\ \A i \in (Len(log') + 1)..HostLog : balance'[i] = 0
        /\ IsRedo /\ target(log, last'.args) # 0
           /\ ~log[target(log, last'.args)].undone =>
               /\ last'.result \in {"NotRedoable", "AlreadyApplied"}
               /\ last'.calls = <<>>
               /\ balance' = balance
        /\ IsUndo /\ target(log, last'.args) # 0
           /\ log[target(log, last'.args)].undone =>
               /\ last'.result = "NotUndoable"
               /\ last'.calls = <<>>
               /\ balance' = balance
      ]_vars

\* a second redo in a row on an entry that was undone and redone is rejected
C22_Witness ==
    /\ last.cmd = "redo"
    /\ is_int(last.args[1])
    /\ target(log, last.args) # 0
    /\ log[target(log, last.args)].seq \in was_undone
    /\ ~log[target(log, last.args)].undone
    /\ balance[target(log, last.args)] = 0
    /\ last.result = "AlreadyApplied"

----------------------------------------------------------------------------
\* the entry of a host field update recorded with the default flags
FieldPatch(e) ==
    /\ e.method = "PATCH"
    /\ e.undoable /\ e.redoable
    /\ DOMAIN e.new_data # {}
    /\ DOMAIN e.new_data \subseteq {"contact", "comment", "ttl", "loc", "hinfo"}

\* the resource at url holds the fields of data
holds(r, url, data) ==
    \A f \in DOMAIN data : <<url, f, data[f]>> \in r

\* C23: on the PATCH entry of a host field update (contact, comment, ttl,
\* loc, hinfo) recorded with the default flags, a successful undo(n) leaves
\* the remote fields at old_data and marks the entry undone; a successful
\* redo(n) right after it leaves the remote fields at new_data again and the
\* log as it was before the undo (the entry not undone, nothing else changed).
C23_PatchRoundTrip ==
    [][ LET t == target(log, last'.args)
        IN  /\ (/\ IsUndo /\ last'.result = "ok"
                /\ t # 0 /\ FieldPatch(log[t]))
               => /\ holds(remote', log[t].url, log[t].old_data)
                  /\ ~log[t].undone
                  /\ log' = [log EXCEPT ![t].undone = TRUE]
            /\ (/\ last.cmd = "undo" /\ last.result = "ok"
                /\ IsRedo /\ last'.args = last.args /\ last'.result = "ok"
                /\ t # 0 /\ FieldPatch(log[t]))
               => /\ holds(remote, log[t].url, log[t].old_data)
                  /\ holds(remote', log[t].url, log[t].new_data)
                  /\ log[t].undone
                  /\ log' = [log EXCEPT ![t].undone = FALSE]
      ]_vars

\* set_comment was undone and then redone: the remote comment is the new one
C23_Witness ==
    /\ last.cmd = "redo" /\ last.result = "ok"
    /\ target(log, last.args) # 0
    /\ LET e == log[target(log, last.args)]
       IN  /\ FieldPatch(e)
           /\ DOMAIN e.new_data = {"comment"}
           /\ ~e.undone
           /\ e.seq \in was_undone
           /\ holds(remote, e.url, e.new_data)
           /\ e.new_data # e.old_data

----------------------------------------------------------------------------
\* C24: a command that rejects its input with a warning (invalid email, IP,
\* TTL, LOC or hinfo value, an address the host does not own, a missing force
\* flag) appends no POST, PATCH or DELETE entry, issues no mutating call and
\* leaves the entries of the log and the remote service as they were: every
\* check comes before the first record_post, record_patch or record_delete.
C24_RejectedInput ==
    [][ last'.result = "warning" =>
            /\ Len(log') >= Len(log)
            /\ \A i \in 1..Len(log) : log'[i] = log[i]
            /\ \A i \in (Len(log) + 1)..Len(log') :
                   log'[i].method \notin Mutating
            /\ \A j \in 1..Len(last'.calls) :
                   last'.calls[j].method \notin Mutating
            /\ remote' = remote
      ]_vars

\* a_change was rejected on a log that holds the PATCH of an earlier command
C24_Witness ==
    /\ last.cmd = "a_change"
    /\ last.result = "warning"
    /\ last.calls = <<>>
    /\ Len(log) >= 1
    /\ log[Len(log)].method = "PATCH"

====
